---- MODULE Spec2Model ----
(***************************************************************************)
(* Model of api/path_configstate.go: the configuration-state controller of *)
(* a node.  UpdateConfigstate is modelled one collaborator call per step   *)
(* (device load, pattern fetch, workload resolution, service creation,     *)
(* state persistence), each step carrying the handler code that follows    *)
(* the call up to the next one.                                            *)
(* FindConfigstateForOutput is one step.  Spec serves requests one at a    *)
(* time from any device record, RetrySpec from a node not yet configured,  *)
(* ConcSpec serves two requests with their steps interleaved.              *)
(***************************************************************************)
EXTENDS Integers, Sequences, FiniteSets, TLC

CONFIGSTATE_CONFIGURING == "configuring"
CONFIGSTATE_CONFIGURED == "configured"

\* ---- bounds of the model
MaxWorkloads == 2       \* workloads in a pattern definition
MaxChoices == 1         \* version choices of one workload
MaxSubList == 2         \* entries of one resolved sub-list
CallCap == 2            \* calls to one collaborator are counted up to this many

\* ---- value domains
Reqs == {1, 2}                  \* request slots; Spec serves requests in slot 1 only
States == {CONFIGSTATE_CONFIGURING, CONFIGSTATE_CONFIGURED}
RequestedStates == States \cup {"active"}
ThisArch == "amd64"
Archs == {ThisArch, "arm"}
Versions == {1, 2}              \* versions of one microservice, ordered as numbers
DevOrg == "myorg"
DevPattern == "pat"
PatId == "myorg/pat"
PatKeys == {PatId, "other/pat"}

\* The API specs (dependency references) the exchange can hand out.  "ms_s" is
\* a shared singleton, "ms_m" is not.
SpecRefs == {"ms_s", "ms_m"}
IsSingletonRef(ref) == ref = "ms_s"
APISpecs ==
  { [SpecRef |-> ref, Org |-> DevOrg, Version |-> v, ExclusiveAccess |-> IsSingletonRef(ref)] :
      ref \in SpecRefs, v \in Versions }
NoSpec == [SpecRef |-> "", Org |-> "", Version |-> 0, ExclusiveAccess |-> FALSE]

SeqsUpTo(S, n) == UNION { [1..k -> S] : k \in 0..n }
SubLists == SeqsUpTo(APISpecs, MaxSubList)
\* The sub-lists of the interleaved runs: one entry at most.
ShortSubLists == SeqsUpTo(APISpecs, 1)

\* A workload of a pattern: its architecture and its version choices (the
\* choices are told apart by position only).
Workloads == [WorkloadArch : Archs, WorkloadVersions : 0..MaxChoices]
PatternDefs == SeqsUpTo(Workloads, MaxWorkloads)

\* ---- error values
NilErr == [type |-> "nil"]
MSMissingVariableConfigError == [type |-> "MSMissingVariableConfigError"]
DuplicateServiceError == [type |-> "DuplicateServiceError"]
OtherError == [type |-> "error"]
NoErrs == [fn |-> NilErr, block |-> NilErr, loop |-> NilErr]

\* ---- responses: what errorhandler writes, or what the function returns
NoDetail == [what |-> "", from |-> "", to |-> "", spec |-> NoSpec]
NoResp == [fault |-> "none", detail |-> NoDetail, cfg |-> "", msgs |-> << >>]
NewNotFoundError == [fault |-> "notfound", detail |-> NoDetail, cfg |-> "", msgs |-> << >>]
NewSystemError_WithView(what) ==
  [fault |-> "system", detail |-> [NoDetail EXCEPT !.what = what],
   cfg |-> CONFIGSTATE_CONFIGURING, msgs |-> << >>]
NewSystemError(what) ==
  [fault |-> "system", detail |-> [NoDetail EXCEPT !.what = what], cfg |-> "", msgs |-> << >>]
NewAPIUserInputError(detail) ==
  [fault |-> "userinput", detail |-> detail, cfg |-> "", msgs |-> << >>]
Panic(what) ==
  [fault |-> "panic", detail |-> [NoDetail EXCEPT !.what = what], cfg |-> "", msgs |-> << >>]
Returned(config, msgs) == [fault |-> "", detail |-> NoDetail, cfg |-> config.State, msgs |-> msgs]

\* ---- pure functions of the source
NoOpStateChange_ConfiguringOnly(from, to) == from = to /\ to = CONFIGSTATE_CONFIGURING
NoOpStateChange(from, to) == from = to

ValidStateChange_RevOK(from, to) == from \in States /\ to \in States
ValidStateChange_AnyChange(from, to) == from # to
ValidStateChange(from, to) ==
  from = CONFIGSTATE_CONFIGURING /\ to = CONFIGSTATE_CONFIGURED

\* The device as the API shows it: its Config carries the persisted state.
ConvertFromPersistentHorizonDevice(pDev) == [Config |-> [State |-> pDev.State]]

NoDevice == [Exists |-> FALSE, State |-> "", Pattern |-> ""]
Devices == { [Exists |-> TRUE, State |-> s, Pattern |-> p] : s \in States, p \in {"", DevPattern} }

\* lines 33-52, with the persisted state ignored.
FindConfigstateForOutput_AlwaysConfiguring(readFailed, pDev) ==
  IF readFailed
    THEN [fault |-> "error", detail |-> NoDetail, cfg |-> "", msgs |-> << >>]
    ELSE Returned([State |-> CONFIGSTATE_CONFIGURING], << >>)

\* lines 33-52: the view of the configuration state.  A failed read returns an
\* error and no view; with no device record the view is configuring; otherwise
\* the view is the record's converted Config.
FindConfigstateForOutput(readFailed, pDev) ==
  IF readFailed
    THEN [fault |-> "error", detail |-> NoDetail, cfg |-> "", msgs |-> << >>]
    ELSE IF ~pDev.Exists
           THEN Returned([State |-> CONFIGSTATE_CONFIGURING], << >>)
           ELSE Returned(ConvertFromPersistentHorizonDevice(pDev).Config, << >>)

VARIABLES
  device,               \* the device record in the local database (NoDevice: none)
  services,             \* the services (microservices) configured on the node
  pc,                   \* per request: where the handler stands
  cfgState,             \* per request: *cfg.State, the requested state
  pDevice,              \* per request: the device record as loaded
  err,                  \* per request: the three variables named err, by scope:
                        \*   fn (lines 66, 173), block (line 94), loop (line 123)
  patternIds,           \* per request: the keys of the map getPatterns returned
  workloads,            \* per request: workloads of patternDef still to iterate
  completeAPISpecList,  \* per request: the resolved list
  outcomes,             \* per request: outcome of each CreateService call so far
  createServiceError,   \* per request: what passthruHandler recorded last
  msgs,                 \* per request: the notifications collected
  calls,                \* per request: calls made to each collaborator (up to CallCap)
  resp,                 \* per request: the response
  \* history, read by the properties only
  servicesAtLoad,       \* per request: the services configured when the request began
  seen,                 \* per request: the API specs of the sub-lists resolved so far
  noArchMatch,          \* per request: the pattern has workloads, none of this architecture
  persisted             \* a request for configured has completed its persistence step

vars == << device, services, pc, cfgState, pDevice, err, patternIds, workloads,
           completeAPISpecList, outcomes, createServiceError, msgs, calls, resp,
           servicesAtLoad, seen, noArchMatch, persisted >>

NoCalls == [getPatterns |-> 0, resolveWorkload |-> 0, CreateService |-> 0, SetConfigstate |-> 0]

\* No request is being served.
InitRequests ==
  /\ pc = [r \in Reqs |-> "idle"]
  /\ cfgState = [r \in Reqs |-> ""]
  /\ pDevice = [r \in Reqs |-> NoDevice]
  /\ err = [r \in Reqs |-> NoErrs]
  /\ patternIds = [r \in Reqs |-> {}]
  /\ workloads = [r \in Reqs |-> << >>]
  /\ completeAPISpecList = [r \in Reqs |-> << >>]
  /\ outcomes = [r \in Reqs |-> << >>]
  /\ createServiceError = [r \in Reqs |-> NilErr]
  /\ msgs = [r \in Reqs |-> << >>]
  /\ calls = [r \in Reqs |-> NoCalls]
  /\ resp = [r \in Reqs |-> NoResp]
  /\ servicesAtLoad = [r \in Reqs |-> {}]
  /\ seen = [r \in Reqs |-> {}]
  /\ noArchMatch = [r \in Reqs |-> FALSE]
  /\ persisted = FALSE

\* Any device record, or none, and any services configured beforehand.
Init ==
  /\ device \in {NoDevice} \cup Devices
  /\ services \in SUBSET APISpecs
  /\ InitRequests

\* ---- the collaborators outside this file, from their contracts

\* persistence.SetConfigstate: the stored record with its state replaced.
SetConfigstate(dev, state) == [dev EXCEPT !.State = state]

\* policy.APISpecList.IsSame with and without the version.
IsSame(a, b, checkVersion) ==
  /\ a.SpecRef = b.SpecRef
  /\ a.Org = b.Org
  /\ (checkVersion => a.Version = b.Version)

\* policy.APISpecList.ReplaceHigherSharedSingleton(incoming): a singleton of
\* the base gives way to a higher version of it in incoming; a singleton of
\* incoming that the base holds in the same or a higher version is dropped.
ReplaceHigherSharedSingleton_AnyEntry(base, incoming) ==
  LET Lower(e1, e2) == IsSame(e1, e2, FALSE) /\ e1.Version < e2.Version
      AtLeast(e1, e2) == IsSame(e1, e2, FALSE) /\ e1.Version >= e2.Version
      KeepBase(b) == ~ \E i \in DOMAIN incoming : Lower(b, incoming[i])
      KeepIncoming(e) == ~ \E j \in DOMAIN base : AtLeast(base[j], e)
  IN [base |-> SelectSeq(base, KeepBase), incoming |-> SelectSeq(incoming, KeepIncoming)]
ReplaceHigherSharedSingleton(base, incoming) ==
  LET Lower(e1, e2) == /\ e1.ExclusiveAccess /\ e2.ExclusiveAccess
                       /\ IsSame(e1, e2, FALSE)
                       /\ e1.Version < e2.Version
      AtLeast(e1, e2) == /\ e1.ExclusiveAccess /\ e2.ExclusiveAccess
                         /\ IsSame(e1, e2, FALSE)
                         /\ e1.Version >= e2.Version
      KeepBase(b) == ~ \E i \in DOMAIN incoming : Lower(b, incoming[i])
      KeepIncoming(e) == ~ \E j \in DOMAIN base : AtLeast(base[j], e)
  IN [base |-> SelectSeq(base, KeepBase), incoming |-> SelectSeq(incoming, KeepIncoming)]

\* policy.APISpecList.MergeWith(incoming): base, then the entries of incoming
\* that base does not hold.
MergeWith(base, incoming) ==
  LET NotInBase(e) == ~ \E j \in DOMAIN base : IsSame(base[j], e, TRUE)
  IN base \o SelectSeq(incoming, NotInBase)

\* CreateService as the handler sees it: the error passthruHandler records
\* (NilErr: none, the service was created).  A service that is configured
\* already is a duplicate; a new one is created or wants variables set; either
\* call can fail for another reason.
CreateServiceErrors(apiSpec, configured) ==
  IF apiSpec \in configured
    THEN {DuplicateServiceError, OtherError}
    ELSE {NilErr, MSMissingVariableConfigError, OtherError}

\* ---- the checks of UpdateConfigstate, in source order

\* line 79
SupportedState_Any(st) == TRUE
SupportedState(st) == st = CONFIGSTATE_CONFIGURING \/ st = CONFIGSTATE_CONFIGURED

\* line 89
HasPattern_Always(pDev) == TRUE
HasPattern(pDev) == pDev.Pattern # ""

\* lines 66-86: the response that ends the request, NoResp to go on.
\* found is what FindExchangeDevice returned (NoDevice: nil).
CheckRequest_StateFirst(readFailed, found, st) ==
  IF readFailed THEN NewSystemError("Unable to read horizondevice object")
  ELSE IF ~SupportedState(st)
    THEN NewAPIUserInputError([NoDetail EXCEPT !.what = "Supported state values"])
  ELSE IF ~found.Exists THEN NewNotFoundError
  ELSE IF NoOpStateChange(found.State, st)
    THEN Returned(ConvertFromPersistentHorizonDevice(found).Config, << >>)
  ELSE IF ~ValidStateChange(found.State, st)
    THEN NewAPIUserInputError([what |-> "Transition is not supported",
                               from |-> found.State, to |-> st, spec |-> NoSpec])
  ELSE NoResp
CheckRequest(readFailed, found, st) ==
  IF readFailed THEN NewSystemError("Unable to read horizondevice object")
  ELSE IF ~found.Exists THEN NewNotFoundError
  ELSE IF ~SupportedState(st)
    THEN NewAPIUserInputError([NoDetail EXCEPT !.what = "Supported state values"])
  ELSE IF NoOpStateChange(found.State, st)
    THEN Returned(ConvertFromPersistentHorizonDevice(found).Config, << >>)
  ELSE IF ~ValidStateChange(found.State, st)
    THEN NewAPIUserInputError([what |-> "Transition is not supported",
                               from |-> found.State, to |-> st, spec |-> NoSpec])
  ELSE NoResp

\* line 97
PatternCountOK_AtLeastOne(pattern) == Cardinality(DOMAIN pattern) >= 1
PatternCountOK(pattern) == Cardinality(DOMAIN pattern) = 1

\* lines 94-106: the fault that ends the request, NoResp to go on.
CheckPattern(fetchFailed, pattern) ==
  IF fetchFailed THEN NewSystemError("Unable to read pattern object")
  ELSE IF ~PatternCountOK(pattern) THEN NewSystemError("Expected only 1 pattern")
  ELSE IF PatId \notin DOMAIN pattern THEN NewSystemError("Expected pattern id not found")
  ELSE NoResp

\* lines 113-122: the loop position, as the workloads still to iterate.  The
\* loop passes over the workloads of another architecture (line 116) and those
\* with no version choice left to resolve (line 122); the head of what is left
\* is the workload whose next version choice is resolved next.
NextWorkload_AnyArch(ws) ==
  LET Iterated(w) == w.WorkloadVersions > 0
  IN SelectSeq(ws, Iterated)
NextWorkload(ws) ==
  LET Iterated(w) == w.WorkloadArch = ThisArch /\ w.WorkloadVersions > 0
  IN SelectSeq(ws, Iterated)

\* lines 130-133
Accumulate(complete, apiSpecList) ==
  LET replaced == ReplaceHigherSharedSingleton(complete, apiSpecList)
  IN MergeWith(replaced.base, replaced.incoming)

\* line 151: err.(*MSMissingVariableConfigError), a type assertion without
\* the comma-ok form: it panics unless e holds that type.
TypeAssertionHolds(e, type) == e.type = type

\* lines 148-161: the response that ends the pass, NoResp to go on.  blockErr
\* is the err of line 94, the variable line 151 reads.
ServiceErrorResponse_FatalGoesOn(createErr, blockErr, apiSpec) ==
  IF createErr.type = "MSMissingVariableConfigError"
    THEN IF TypeAssertionHolds(blockErr, "MSMissingVariableConfigError")
           THEN NewAPIUserInputError([what |-> "Configstate autoconfig", from |-> "",
                                      to |-> "", spec |-> apiSpec])
           ELSE Panic("interface conversion")
  ELSE NoResp
ServiceErrorResponse_NothingStops(createErr, blockErr, apiSpec) == NoResp
ServiceErrorResponse_MissingGoesOn(createErr, blockErr, apiSpec) ==
  IF createErr = NilErr THEN NoResp
  ELSE IF createErr.type = "MSMissingVariableConfigError" THEN NoResp
  ELSE IF createErr.type = "DuplicateServiceError" THEN NoResp
  ELSE NewSystemError("unexpected error returned from service create")
ServiceErrorResponse(createErr, blockErr, apiSpec) ==
  IF createErr = NilErr THEN NoResp
  ELSE IF createErr.type = "MSMissingVariableConfigError"
    THEN IF TypeAssertionHolds(blockErr, "MSMissingVariableConfigError")
           THEN NewAPIUserInputError([what |-> "Configstate autoconfig", from |-> "",
                                      to |-> "", spec |-> apiSpec])
           ELSE Panic("interface conversion")
  ELSE IF createErr.type = "DuplicateServiceError" THEN NoResp
  ELSE NewSystemError("unexpected error returned from service create")

\* lines 162-165
CollectMsg_OnDuplicate(ms, createErr, apiSpec) ==
  IF createErr = NilErr \/ createErr = DuplicateServiceError THEN Append(ms, apiSpec) ELSE ms
CollectMsg_Always(ms, createErr, apiSpec) == Append(ms, apiSpec)
CollectMsg(ms, createErr, apiSpec) ==
  IF createErr = NilErr THEN Append(ms, apiSpec) ELSE ms

\* ---- the steps of UpdateConfigstate

Called(r, name) == [calls EXCEPT ![r][name] = IF @ < CallCap THEN @ + 1 ELSE @]

\* The request ends: errorhandler has written the fault, or the function returns.
Finish(r, response) ==
  /\ pc' = [pc EXCEPT ![r] = "done"]
  /\ resp' = [resp EXCEPT ![r] = response]
  /\ workloads' = [workloads EXCEPT ![r] = << >>]

\* lines 66-89: a request arrives, the device is loaded and the request checked.
LoadDevice(r) ==
  /\ pc[r] = "idle"
  /\ \E st \in RequestedStates, readFailed \in BOOLEAN :
       LET found == IF readFailed THEN NoDevice ELSE device
           checked == CheckRequest(readFailed, found, st)
       IN /\ cfgState' = [cfgState EXCEPT ![r] = st]
          /\ pDevice' = [pDevice EXCEPT ![r] = found]
          /\ err' = [err EXCEPT ![r].fn = IF readFailed THEN OtherError ELSE NilErr]
          /\ IF checked # NoResp
               THEN Finish(r, checked)
               ELSE /\ pc' = [pc EXCEPT ![r] =
                                IF HasPattern(found) THEN "getPatterns" ELSE "SetConfigstate"]
                    /\ UNCHANGED << resp, workloads >>
  /\ servicesAtLoad' = [servicesAtLoad EXCEPT ![r] = services]
  /\ UNCHANGED << device, services, patternIds, completeAPISpecList, outcomes,
                  createServiceError, msgs, calls, seen, noArchMatch, persisted >>

\* lines 94-122: the pattern is fetched and checked, the workload loop entered.
GetPatterns(r) ==
  /\ pc[r] = "getPatterns"
  /\ calls' = Called(r, "getPatterns")
  /\ \E fetchFailed \in BOOLEAN, keys \in SUBSET PatKeys, patternDef \in PatternDefs :
       LET pattern == [k \in keys |-> patternDef]
           checked == CheckPattern(fetchFailed, pattern)
           todo == NextWorkload(pattern[PatId])
       IN /\ err' = [err EXCEPT ![r].block = IF fetchFailed THEN OtherError ELSE NilErr]
          /\ patternIds' = [patternIds EXCEPT ![r] = IF fetchFailed THEN {} ELSE keys]
          /\ IF checked # NoResp
               THEN /\ Finish(r, checked)
                    /\ UNCHANGED noArchMatch
               ELSE /\ workloads' = [workloads EXCEPT ![r] = todo]
                    /\ pc' = [pc EXCEPT ![r] =
                                IF todo # << >> THEN "resolveWorkload" ELSE "SetConfigstate"]
                    /\ noArchMatch' = [noArchMatch EXCEPT ![r] =
                          /\ pattern[PatId] # << >>
                          /\ \A i \in DOMAIN pattern[PatId] :
                                pattern[PatId][i].WorkloadArch # ThisArch]
                    /\ UNCHANGED resp
  /\ UNCHANGED << device, services, cfgState, pDevice, completeAPISpecList, outcomes,
                  createServiceError, msgs, servicesAtLoad, seen, persisted >>

\* lines 123-136: one version choice of the current workload is resolved and
\* its list folded into the complete list.  subLists is what resolveWorkload
\* can answer.
ResolveWorkloadFrom(r, subLists) ==
  /\ pc[r] = "resolveWorkload"
  /\ calls' = Called(r, "resolveWorkload")
  /\ \/ /\ err' = [err EXCEPT ![r].loop = OtherError]
        /\ Finish(r, NewSystemError("Error resolving workload"))
        /\ UNCHANGED << completeAPISpecList, seen >>
     \/ \E resolved \in { [complete |-> Accumulate(completeAPISpecList[r], apiSpecList),
                            seen |-> seen[r] \cup { apiSpecList[i] : i \in DOMAIN apiSpecList }] :
                             apiSpecList \in subLists } :
          LET complete == resolved.complete
              cur == Head(workloads[r])
              todo == NextWorkload(
                        << [cur EXCEPT !.WorkloadVersions = @ - 1] >> \o Tail(workloads[r]))
          IN /\ completeAPISpecList' = [completeAPISpecList EXCEPT ![r] = complete]
             /\ workloads' = [workloads EXCEPT ![r] = todo]
             /\ pc' = [pc EXCEPT ![r] =
                         IF todo # << >> THEN "resolveWorkload"
                         ELSE IF complete # << >> THEN "CreateService"
                         ELSE "SetConfigstate"]
             /\ seen' = [seen EXCEPT ![r] = resolved.seen]
             /\ UNCHANGED << resp, err >>
  /\ UNCHANGED << device, services, cfgState, pDevice, patternIds, outcomes,
                  createServiceError, msgs, servicesAtLoad, noArchMatch, persisted >>

ResolveWorkload(r) == ResolveWorkloadFrom(r, SubLists)

\* lines 144-166: one entry of the complete list is handed to CreateService.
CreateService(r) ==
  /\ pc[r] = "CreateService"
  /\ calls' = Called(r, "CreateService")
  /\ LET i == Len(outcomes[r]) + 1
         apiSpec == completeAPISpecList[r][i]
     IN \E createErr \in CreateServiceErrors(apiSpec, services) :
          LET response == ServiceErrorResponse(createErr, err[r].block, apiSpec)
          IN /\ services' = IF createErr = NilErr THEN services \cup {apiSpec} ELSE services
             /\ createServiceError' =
                  [createServiceError EXCEPT ![r] = IF createErr = NilErr THEN @ ELSE createErr]
             /\ outcomes' = [outcomes EXCEPT ![r] = Append(@, createErr.type)]
             /\ msgs' = [msgs EXCEPT ![r] = CollectMsg(@, createErr, apiSpec)]
             /\ IF response # NoResp
                  THEN Finish(r, response)
                  ELSE /\ pc' = [pc EXCEPT ![r] =
                                   IF i < Len(completeAPISpecList[r])
                                     THEN "CreateService" ELSE "SetConfigstate"]
                       /\ UNCHANGED << resp, workloads >>
  /\ UNCHANGED << device, cfgState, pDevice, err, patternIds, completeAPISpecList,
                  servicesAtLoad, seen, noArchMatch, persisted >>

\* lines 173-181: the new state is persisted and the response returned.
PersistState(r) ==
  /\ pc[r] = "SetConfigstate"
  /\ calls' = Called(r, "SetConfigstate")
  /\ \E writeFailed \in BOOLEAN :
       IF writeFailed
         THEN /\ err' = [err EXCEPT ![r].fn = OtherError]
              /\ Finish(r, NewSystemError("error persisting new config state"))
              /\ UNCHANGED << device, persisted >>
         ELSE LET updatedDev == SetConfigstate(device, cfgState[r])
              IN /\ device' = updatedDev
                 /\ persisted' = (persisted \/ cfgState[r] = CONFIGSTATE_CONFIGURED)
                 /\ UNCHANGED err
                 /\ Finish(r, Returned(ConvertFromPersistentHorizonDevice(updatedDev).Config,
                                       msgs[r]))
  /\ UNCHANGED << services, cfgState, pDevice, patternIds, completeAPISpecList, outcomes,
                  createServiceError, msgs, servicesAtLoad, seen, noArchMatch >>

\* lines 33-52: a request for the view, served in a request slot of its own.
ViewConfigstate(r) ==
  /\ pc[r] = "idle"
  /\ \E readFailed \in BOOLEAN :
       LET found == IF readFailed THEN NoDevice ELSE device
       IN /\ pDevice' = [pDevice EXCEPT ![r] = found]
          /\ err' = [err EXCEPT ![r].fn = IF readFailed THEN OtherError ELSE NilErr]
          /\ resp' = [resp EXCEPT ![r] = FindConfigstateForOutput(readFailed, found)]
  /\ pc' = [pc EXCEPT ![r] = "viewed"]
  /\ UNCHANGED << device, services, cfgState, patternIds, workloads, completeAPISpecList,
                  outcomes, createServiceError, msgs, calls, servicesAtLoad, seen,
                  noArchMatch, persisted >>

\* The response has gone out; the slot is free for the next request.
Respond(r) ==
  /\ pc[r] \in {"done", "viewed"}
  /\ pc' = [pc EXCEPT ![r] = "idle"]
  /\ cfgState' = [cfgState EXCEPT ![r] = ""]
  /\ pDevice' = [pDevice EXCEPT ![r] = NoDevice]
  /\ err' = [err EXCEPT ![r] = NoErrs]
  /\ patternIds' = [patternIds EXCEPT ![r] = {}]
  /\ workloads' = [workloads EXCEPT ![r] = << >>]
  /\ completeAPISpecList' = [completeAPISpecList EXCEPT ![r] = << >>]
  /\ outcomes' = [outcomes EXCEPT ![r] = << >>]
  /\ createServiceError' = [createServiceError EXCEPT ![r] = NilErr]
  /\ msgs' = [msgs EXCEPT ![r] = << >>]
  /\ calls' = [calls EXCEPT ![r] = NoCalls]
  /\ resp' = [resp EXCEPT ![r] = NoResp]
  /\ servicesAtLoad' = [servicesAtLoad EXCEPT ![r] = {}]
  /\ seen' = [seen EXCEPT ![r] = {}]
  /\ noArchMatch' = [noArchMatch EXCEPT ![r] = FALSE]
  /\ UNCHANGED << device, services, persisted >>

\* Requests served one at a time (request slot 1 only).
Next ==
  \/ LoadDevice(1)
  \/ GetPatterns(1)
  \/ ResolveWorkload(1)
  \/ CreateService(1)
  \/ PersistState(1)
  \/ ViewConfigstate(1)
  \/ Respond(1)

Spec == Init /\ [][Next]_vars

\* A node before its first configuration: the device is not registered, or is
\* registered and configuring, and no service has been configured yet, so every
\* service there is was created by a request of the run.
InitRetry ==
  /\ device \in {NoDevice} \cup { d \in Devices : d.State = CONFIGSTATE_CONFIGURING }
  /\ services = {}
  /\ InitRequests

RetrySpec == InitRetry /\ [][Next]_vars

\* Two requests served at the same time, with nothing to serialize them: the
\* steps of the two interleave in any order, each request served once.  Every
\* version choice resolves to one API spec at most.
ConcResolveWorkload(r) == ResolveWorkloadFrom(r, ShortSubLists)

ConcNext ==
  \E r \in Reqs :
    \/ LoadDevice(r)
    \/ GetPatterns(r)
    \/ ConcResolveWorkload(r)
    \/ CreateService(r)
    \/ PersistState(r)

ConcSpec == InitRetry /\ [][ConcNext]_vars

\* ---- properties

Done(r) == pc[r] = "done"
Last(s) == s[Len(s)]
OnlyCalled(r, name, n) == calls[r] = [NoCalls EXCEPT ![name] = n]
StoppingOutcomes == {"MSMissingVariableConfigError", "error"}

\* A request that passed the checks of lines 66-86 for configuring -> configured.
Transitioning(r) ==
  /\ pDevice[r].Exists
  /\ pDevice[r].State = CONFIGSTATE_CONFIGURING
  /\ cfgState[r] = CONFIGSTATE_CONFIGURED

\* The entries of list whose CreateService call returned no error, in list order.
RECURSIVE CreatedOf(_, _)
CreatedOf(list, outs) ==
  IF outs = << >> THEN << >>
  ELSE LET n == Len(outs)
           before == CreatedOf(list, SubSeq(outs, 1, n - 1))
       IN IF outs[n] = "nil" THEN Append(before, list[n]) ELSE before

\* C1: over any sequence of requests the persisted state of the device only
\* ever changes from configuring to configured (never back, never to a value
\* outside the two states), and nothing else of the record changes.
C1_StateOnlyAdvances ==
  [][ /\ (device' # device =>
            /\ device.Exists
            /\ device.State = CONFIGSTATE_CONFIGURING
            /\ device' = [device EXCEPT !.State = CONFIGSTATE_CONFIGURED])
      /\ (device'.Exists => device'.State \in States) ]_vars

\* A request for configuring (and one for a state outside the two) has been
\* answered while the device was configured, and the device is still configured.
C1_Witness ==
  \E r \in Reqs :
    /\ Done(r)
    /\ pDevice[r].State = CONFIGSTATE_CONFIGURED
    /\ cfgState[r] = CONFIGSTATE_CONFIGURING
    /\ device.State = CONFIGSTATE_CONFIGURED

\* C2: when CreateService reports that a resolved dependency needs manual
\* configuration, the request ends with an invalid-input fault naming that
\* dependency (reference, organization, version), the device stays configuring
\* and the persistence step is not reached.
C2_ManualConfigFault ==
  \A r \in Reqs :
    (Done(r) /\ outcomes[r] # << >> /\ Last(outcomes[r]) = "MSMissingVariableConfigError") =>
      /\ resp[r].fault = "userinput"
      /\ resp[r].detail.spec = completeAPISpecList[r][Len(outcomes[r])]
      /\ device.State = CONFIGSTATE_CONFIGURING
      /\ calls[r].SetConfigstate = 0

\* C3: a request for the state the device is in returns that state with no
\* fault and no notification, and calls no collaborator: no pattern fetch, no
\* workload resolution, no service creation, no persistence write.
C3_NoOp ==
  \A r \in Reqs :
    (Done(r) /\ pDevice[r].Exists /\ cfgState[r] = pDevice[r].State) =>
      /\ resp[r] = Returned([State |-> pDevice[r].State], << >>)
      /\ calls[r] = NoCalls
      /\ outcomes[r] = << >>
      /\ device = pDevice[r]

C3_Witness ==
  \E r \in Reqs :
    /\ Done(r)
    /\ pDevice[r].Exists
    /\ pDevice[r].Pattern # ""
    /\ pDevice[r].State = CONFIGSTATE_CONFIGURED
    /\ cfgState[r] = CONFIGSTATE_CONFIGURED

\* C4: with no device record (and the database readable), every requested
\* state, supported or not, gets the not-found fault and no collaborator is
\* called.
C4_NotFound ==
  \A r \in Reqs :
    (Done(r) /\ err[r].fn = NilErr /\ ~device.Exists) =>
      /\ resp[r] = NewNotFoundError
      /\ calls[r] = NoCalls
      /\ outcomes[r] = << >>

C4_Witness ==
  \E r \in Reqs :
    /\ Done(r)
    /\ err[r].fn = NilErr
    /\ ~device.Exists
    /\ cfgState[r] \notin States

\* C5: a request configuring -> configured of a device with a pattern that
\* returns without fault returns state configured and, as notifications,
\* exactly the entries of the resolved list whose CreateService call created
\* the service, in list order; every entry was attempted and ended as created
\* or already present.  An already-present outcome never ends the pass.
C5_Notifications ==
  \A r \in Reqs :
    /\ (Done(r) /\ Transitioning(r) /\ HasPattern(pDevice[r]) /\ resp[r].fault = "") =>
         /\ resp[r].cfg = CONFIGSTATE_CONFIGURED
         /\ Len(outcomes[r]) = Len(completeAPISpecList[r])
         /\ \A i \in DOMAIN outcomes[r] : outcomes[r][i] \in {"nil", "DuplicateServiceError"}
         /\ resp[r].msgs = CreatedOf(completeAPISpecList[r], outcomes[r])
    /\ (Done(r) /\ outcomes[r] # << >> /\ Last(outcomes[r]) = "DuplicateServiceError") =>
         /\ Len(outcomes[r]) = Len(completeAPISpecList[r])
         /\ calls[r].SetConfigstate = 1

\* Scenario C: the first entry was already present, the second was created.
C5_Witness ==
  \E r \in Reqs :
    /\ Done(r)
    /\ resp[r].fault = ""
    /\ outcomes[r] = << "DuplicateServiceError", "nil" >>
    /\ Len(resp[r].msgs) = 1

\* C6: the entries of the resolved list are attempted in list order; an outcome
\* needs-manual-config or fatal is the last attempt of the request (the pass
\* stops, the persistence step is not reached), and every entry created before
\* it is still configured.
C6_PassStops ==
  \A r \in Reqs :
    /\ Len(outcomes[r]) <= Len(completeAPISpecList[r])
    /\ \A i \in DOMAIN outcomes[r] :
         /\ (outcomes[r][i] = "nil" => completeAPISpecList[r][i] \in services)
         /\ (outcomes[r][i] \in StoppingOutcomes =>
               /\ i = Len(outcomes[r])
               /\ Done(r)
               /\ resp[r].fault \notin {"", "none"}
               /\ calls[r].SetConfigstate = 0)

\* A service was created, the next attempt failed, and an entry was left
\* unattempted.
C6_Witness ==
  \E r \in Reqs :
    /\ Done(r)
    /\ Len(outcomes[r]) >= 2
    /\ outcomes[r][1] = "nil"
    /\ Last(outcomes[r]) \in StoppingOutcomes
    /\ Len(outcomes[r]) < Len(completeAPISpecList[r])

\* C7: a request configuring -> configured of a device without a pattern makes
\* exactly one persistence write and no pattern fetch, workload resolution or
\* service creation; when the write succeeds it returns configured with no
\* notification.
C7_NoPattern ==
  \A r \in Reqs :
    (Done(r) /\ Transitioning(r) /\ pDevice[r].Pattern = "") =>
      /\ OnlyCalled(r, "SetConfigstate", 1)
      /\ outcomes[r] = << >>
      /\ IF err[r].fn = NilErr
           THEN /\ resp[r] = Returned([State |-> CONFIGSTATE_CONFIGURED], << >>)
                /\ device.State = CONFIGSTATE_CONFIGURED
           ELSE /\ resp[r].fault = "system"
                /\ device.State = CONFIGSTATE_CONFIGURING

C7_Witness ==
  \E r \in Reqs :
    /\ Done(r)
    /\ Transitioning(r)
    /\ pDevice[r].Pattern = ""
    /\ resp[r].fault = ""
    /\ device.State = CONFIGSTATE_CONFIGURED

\* C8: a request for configuring while the device is configured gets the
\* invalid-input fault that names both states; the device stays configured and
\* no collaborator is called.
C8_ReverseRejected ==
  \A r \in Reqs :
    (Done(r) /\ pDevice[r].Exists /\ pDevice[r].State = CONFIGSTATE_CONFIGURED
       /\ cfgState[r] = CONFIGSTATE_CONFIGURING) =>
      /\ resp[r] = NewAPIUserInputError([what |-> "Transition is not supported",
                                         from |-> CONFIGSTATE_CONFIGURED,
                                         to |-> CONFIGSTATE_CONFIGURING,
                                         spec |-> NoSpec])
      /\ device = pDevice[r]
      /\ calls[r] = NoCalls
      /\ outcomes[r] = << >>

C8_Witness ==
  \E r \in Reqs :
    /\ Done(r)
    /\ pDevice[r].Exists
    /\ pDevice[r].State = CONFIGSTATE_CONFIGURED
    /\ cfgState[r] = CONFIGSTATE_CONFIGURING
    /\ resp[r].fault = "userinput"

\* C9: for a registered device a requested state outside the two states gets
\* the invalid-input fault of the supported-values check (not the no-op answer,
\* not the transition fault), whatever the current state; the device is
\* unchanged and no collaborator is called.
C9_UnsupportedState ==
  \A r \in Reqs :
    (Done(r) /\ pDevice[r].Exists /\ cfgState[r] \notin States) =>
      /\ resp[r] = NewAPIUserInputError([NoDetail EXCEPT !.what = "Supported state values"])
      /\ device = pDevice[r]
      /\ calls[r] = NoCalls
      /\ outcomes[r] = << >>

C9_Witness ==
  \E r \in Reqs :
    /\ Done(r)
    /\ pDevice[r].Exists
    /\ pDevice[r].State = CONFIGSTATE_CONFIGURED
    /\ cfgState[r] \notin States
    /\ resp[r].fault = "userinput"

\* The pattern could not be resolved: the fetch failed, the map returned does
\* not hold exactly one pattern or does not hold the device's pattern, or the
\* resolution of a version choice failed.
ResolutionFailed(r) ==
  \/ err[r].block # NilErr
  \/ /\ calls[r].getPatterns > 0
     /\ err[r].block = NilErr
     /\ (Cardinality(patternIds[r]) # 1 \/ PatId \notin patternIds[r])
  \/ err[r].loop # NilErr

\* C10: any resolution failure ends the request with a systemic fault: no
\* service creation is attempted, not even for the entries resolved before the
\* failure, the persistence step is not reached and the device stays
\* configuring.
C10_ResolutionFault ==
  \A r \in Reqs :
    ResolutionFailed(r) =>
      /\ Done(r)
      /\ resp[r].fault = "system"
      /\ calls[r].CreateService = 0
      /\ calls[r].SetConfigstate = 0
      /\ outcomes[r] = << >>
      /\ msgs[r] = << >>
      /\ device.State = CONFIGSTATE_CONFIGURING

\* A version choice failed to resolve after an earlier one had resolved to a
\* non-empty list.
C10_Witness ==
  \E r \in Reqs :
    /\ Done(r)
    /\ err[r].loop # NilErr
    /\ completeAPISpecList[r] # << >>

\* ---- the resolved list (lines 111-136)
Range(s) == { s[i] : i \in DOMAIN s }
Singleton(e) == e.ExclusiveAccess

\* The workload loop of request r has ended without a failure.
Resolved(r) ==
  /\ pc[r] \in {"CreateService", "SetConfigstate", "done"}
  /\ err[r].loop = NilErr

\* The highest version among the entries of S that are the same (reference,
\* organization) as e.
HighestSeen(S, e) ==
  CHOOSE v \in { x.Version : x \in { y \in S : IsSame(y, e, FALSE) } } :
    \A x \in S : IsSame(x, e, FALSE) => x.Version <= v

\* C11: after resolution the resolved list holds at most one singleton entry
\* per (reference, organization), whatever the sub-lists were and in whatever
\* order they came, and that entry is the highest version seen in any sub-list.
C11_OneSingletonHighest ==
  \A r \in Reqs :
    Resolved(r) =>
      LET list == completeAPISpecList[r]
      IN /\ \A i, j \in DOMAIN list :
              (Singleton(list[i]) /\ Singleton(list[j]) /\ IsSame(list[i], list[j], FALSE))
                => i = j
         /\ \A e \in seen[r] :
              Singleton(e) =>
                \E i \in DOMAIN list :
                  /\ IsSame(list[i], e, FALSE)
                  /\ list[i].Version = HighestSeen(seen[r], e)

\* C12: the resolved list never holds two entries with the same (reference,
\* organization, version), whatever the sub-lists were, so no API spec is
\* handed to CreateService twice within one request.
C12_NoDuplicates ==
  \A r \in Reqs :
    LET list == completeAPISpecList[r]
    IN \A i, j \in DOMAIN list : IsSame(list[i], list[j], TRUE) => i = j

\* C13: the workloads of another architecture bring no entry and no
\* resolveWorkload call: the loop only ever resolves a version choice of a
\* workload of this architecture, and a pattern none of whose workloads is of
\* this architecture resolves to the empty list, after which the change to
\* configured goes through with no CreateService call and no message.
C13_OtherArchSkipped ==
  \A r \in Reqs :
    /\ pc[r] = "resolveWorkload" =>
         \A i \in DOMAIN workloads[r] : workloads[r][i].WorkloadArch = ThisArch
    /\ noArchMatch[r] =>
         /\ pc[r] \in {"SetConfigstate", "done"}
         /\ calls[r].resolveWorkload = 0
         /\ calls[r].CreateService = 0
         /\ completeAPISpecList[r] = << >>
         /\ outcomes[r] = << >>
         /\ msgs[r] = << >>
         /\ (Done(r) /\ err[r].fn = NilErr) =>
              /\ resp[r] = Returned([State |-> CONFIGSTATE_CONFIGURED], << >>)
              /\ device.State = CONFIGSTATE_CONFIGURED

\* A request whose pattern has workloads, all of another architecture, has
\* returned configured.
C13_Witness ==
  \E r \in Reqs :
    /\ Done(r)
    /\ noArchMatch[r]
    /\ resp[r].fault = ""
    /\ resp[r].cfg = CONFIGSTATE_CONFIGURED
    /\ calls[r].SetConfigstate = 1

\* ---- retries (RetrySpec: every configured service was created by an earlier
\* request, and a request that finds the device configuring follows attempts
\* that all failed)

\* C14: a retry of UpdateConfigstate(configured) after an attempt that failed
\* part-way never creates again what an earlier attempt created: CreateService
\* answers such an entry with the duplicate error (or fails), only entries not
\* yet configured are created, each once, the messages name exactly the entries
\* created by this attempt, and a retry that goes through has found every
\* earlier-created entry of its list already present.
C14_RetryCreatesRemaining ==
  \A r \in Reqs :
    Transitioning(r) =>
      LET list == completeAPISpecList[r]
          outs == outcomes[r]
      IN /\ \A i \in DOMAIN outs :
              /\ list[i] \in servicesAtLoad[r] =>
                   outs[i] \in {"DuplicateServiceError", "error"}
              /\ outs[i] = "nil" =>
                   /\ list[i] \notin servicesAtLoad[r]
                   /\ \A j \in 1..(i - 1) : list[j] = list[i] => outs[j] # "nil"
         /\ Range(msgs[r]) \cap servicesAtLoad[r] = {}
         /\ Range(msgs[r]) = services \ servicesAtLoad[r]
         /\ (Done(r) /\ resp[r].fault = "") =>
              /\ \A i \in DOMAIN list :
                   list[i] \in servicesAtLoad[r] => outs[i] = "DuplicateServiceError"
              /\ Range(resp[r].msgs) = Range(list) \ servicesAtLoad[r]

\* A retry has gone through: it found an entry of its list created by an
\* earlier, failed attempt and created another one itself.
C14_Witness ==
  \E r \in Reqs :
    /\ Done(r)
    /\ Transitioning(r)
    /\ resp[r].fault = ""
    /\ \E i, j \in DOMAIN outcomes[r] :
         /\ completeAPISpecList[r][i] \in servicesAtLoad[r]
         /\ outcomes[r][i] = "DuplicateServiceError"
         /\ outcomes[r][j] = "nil"

\* C15: entries that are not singletons are not replaced: every non-singleton
\* entry of any sub-list is in the resolved list, so two versions of one
\* (reference, organization) stay side by side, and a pass that is not stopped
\* hands each of them to CreateService.
C15_NonSingletonsKept ==
  \A r \in Reqs :
    Resolved(r) =>
      LET list == completeAPISpecList[r]
      IN \A e \in seen[r] :
           ~Singleton(e) =>
             /\ e \in Range(list)
             /\ (Done(r) /\ resp[r].fault = "") =>
                  \E i \in DOMAIN outcomes[r] : list[i] = e

\* Two versions of the non-singleton reference were resolved, the higher one
\* first, and both were handed to CreateService.
C15_Witness ==
  \E r \in Reqs :
    /\ Done(r)
    /\ resp[r].fault = ""
    /\ \E i, j \in DOMAIN outcomes[r] :
         LET a == completeAPISpecList[r][i]
             b == completeAPISpecList[r][j]
         IN /\ i < j
            /\ ~Singleton(a) /\ ~Singleton(b)
            /\ IsSame(a, b, FALSE)
            /\ a.Version > b.Version

\* C16: FindConfigstateForOutput shows configuring while no device is
\* registered and the persisted state of the device otherwise; so, from a node
\* not yet configured, the view shows configured exactly when some request for
\* configured has completed its persistence step.
C16_ViewIsPersistedState ==
  \A r \in Reqs :
    (pc[r] = "viewed" /\ err[r].fn = NilErr) =>
      /\ resp[r].fault = ""
      /\ resp[r].msgs = << >>
      /\ resp[r].cfg = (IF device.Exists THEN device.State ELSE CONFIGSTATE_CONFIGURING)
      /\ (resp[r].cfg = CONFIGSTATE_CONFIGURED) <=> persisted

\* The view shows configured after a request persisted it.
C16_Witness ==
  \E r \in Reqs :
    /\ pc[r] = "viewed"
    /\ err[r].fn = NilErr
    /\ persisted
    /\ resp[r].cfg = CONFIGSTATE_CONFIGURED

\* ---- the order of the collaborator calls

\* Request r takes the step it is at: every step of a request at
\* "resolveWorkload" takes a version choice off workloads (or ends the request),
\* every step at "CreateService" adds an outcome, every other step moves on.
StepAt(r, at) ==
  /\ pc[r] = at
  /\ (pc'[r] # at \/ workloads'[r] # workloads[r] \/ outcomes'[r] # outcomes[r])

\* C17: within one request the collaborators are called in a fixed order: the
\* device is loaded, the pattern fetched (once), the version choices resolved,
\* the services created, the state persisted.  No CreateService call comes
\* before the last resolveWorkload call, and SetConfigstate is called at most
\* once and only after every CreateService call of the request ended with no
\* error or with the duplicate error.
C17_CallOrder ==
  [][\A r \in Reqs :
       /\ (StepAt(r, "idle") /\ pc'[r] # "viewed") => calls[r] = NoCalls
       /\ StepAt(r, "getPatterns") =>
            /\ pDevice[r].Exists
            /\ calls[r] = NoCalls
            /\ calls'[r] = [NoCalls EXCEPT !.getPatterns = 1]
       /\ StepAt(r, "resolveWorkload") =>
            /\ calls[r].getPatterns = 1
            /\ calls[r].CreateService = 0
            /\ calls[r].SetConfigstate = 0
            /\ outcomes[r] = << >>
            /\ calls'[r].resolveWorkload > 0
       /\ StepAt(r, "CreateService") =>
            /\ calls[r].getPatterns = 1
            /\ calls[r].resolveWorkload > 0
            /\ workloads[r] = << >>
            /\ calls[r].SetConfigstate = 0
            /\ calls'[r].CreateService > 0
            /\ pc'[r] # "resolveWorkload"
       /\ StepAt(r, "SetConfigstate") =>
            /\ calls[r].SetConfigstate = 0
            /\ calls'[r].SetConfigstate = 1
            /\ workloads[r] = << >>
            /\ Len(outcomes[r]) = Len(completeAPISpecList[r])
            /\ \A i \in DOMAIN outcomes[r] :
                 outcomes[r][i] \in {"nil", "DuplicateServiceError"}
            /\ pc'[r] = "done"
       /\ (calls'[r] # calls[r] /\ pc[r] # "done") =>
            pc[r] \in {"getPatterns", "resolveWorkload", "CreateService", "SetConfigstate"}
  ]_vars

\* The state was persisted after both a resolveWorkload and a CreateService call.
C17_Witness ==
  \E r \in Reqs :
    /\ Done(r)
    /\ calls[r].getPatterns = 1
    /\ calls[r].resolveWorkload = CallCap
    /\ calls[r].CreateService = CallCap
    /\ calls[r].SetConfigstate = 1

\* C18: when a request has changed a device with a pattern to configured,
\* every entry of the list it resolved is provisioned: CreateService created it
\* or found it present, and the service exists.  A device is left with only
\* part of its list provisioned only while it is still configuring.
C18_ConfiguredMeansProvisioned ==
  \A r \in Reqs :
    (Done(r) /\ Transitioning(r) /\ HasPattern(pDevice[r])) =>
      LET list == completeAPISpecList[r]
          Provisioned(i) == /\ i \in DOMAIN outcomes[r]
                            /\ outcomes[r][i] \in {"nil", "DuplicateServiceError"}
                            /\ list[i] \in services
      IN /\ device.State = CONFIGSTATE_CONFIGURED => \A i \in DOMAIN list : Provisioned(i)
         /\ (\E i \in DOMAIN list : ~Provisioned(i)) =>
              /\ device.State = CONFIGSTATE_CONFIGURING
              /\ resp[r].fault # ""

\* A device with a pattern is configured and its two resolved entries are
\* provisioned, one created by the request and one found present.
C18_Witness ==
  \E r \in Reqs :
    /\ Done(r)
    /\ Transitioning(r)
    /\ HasPattern(pDevice[r])
    /\ device.State = CONFIGSTATE_CONFIGURED
    /\ outcomes[r] = << "DuplicateServiceError", "nil" >>
    /\ Range(completeAPISpecList[r]) \subseteq services

\* C19: a response of UpdateConfigstate that carries a fault carries no view
\* of the configuration state and no messages, even when the request created
\* services before it failed and even when the failure is the persistence
\* write after a complete pass; messages go out only with the response of a
\* request that completed the persistence step.
C19_FaultCarriesNothing ==
  \A r \in Reqs :
    Done(r) =>
      /\ resp[r].fault # "" =>
           /\ resp[r].cfg = ""
           /\ resp[r].msgs = << >>
      /\ resp[r].msgs # << >> =>
           /\ resp[r].fault = ""
           /\ calls[r].SetConfigstate = 1
           /\ err[r].fn = NilErr
           /\ resp[r].msgs = msgs[r]

\* The persistence write failed after a pass that created a service: the
\* response is the fault alone.
C19_Witness ==
  \E r \in Reqs :
    /\ Done(r)
    /\ calls[r].SetConfigstate = 1
    /\ err[r].fn # NilErr
    /\ msgs[r] # << >>
    /\ resp[r].fault = "system"
    /\ resp[r].msgs = << >>

\* ---- two requests at a time (ConcSpec)

\* The number of CreateService calls of the requests that created e.
Creations(e) ==
  Cardinality(UNION { { << r, i >> : i \in { j \in DOMAIN outcomes[r] :
                                              /\ outcomes[r][j] = "nil"
                                              /\ completeAPISpecList[r][j] = e } } :
                      r \in Reqs })

\* C20: two requests for configured that both loaded the device as
\* configuring, their steps interleaved in any order: every API spec is created
\* by one CreateService call at most, is named in the messages of one of the
\* two responses at most, and once both have returned the device is configured
\* if either went through.
C20_Interleaved ==
  (Transitioning(1) /\ Transitioning(2)) =>
    /\ \A e \in APISpecs : Creations(e) <= 1
    /\ Range(msgs[1]) \cap Range(msgs[2]) = {}
    /\ Range(resp[1].msgs) \cap Range(resp[2].msgs) = {}
    /\ \A r \in Reqs : \A i, j \in DOMAIN msgs[r] : msgs[r][i] = msgs[r][j] => i = j
    /\ (Done(1) /\ Done(2)) =>
         /\ (resp[1].fault = "" \/ resp[2].fault = "") =>
              device.State = CONFIGSTATE_CONFIGURED
         /\ (resp[1].fault = "" /\ resp[2].fault = "") =>
              Range(resp[1].msgs) \cup Range(resp[2].msgs) = services

\* Both requests went through with the same one-entry list, the second one's
\* CreateService call coming between the first one's and its persistence
\* step: one created the service and reports it, the other found it present.
C20_Witness ==
  /\ Transitioning(1) /\ Transitioning(2)
  /\ Done(1) /\ Done(2)
  /\ resp[1].fault = "" /\ resp[2].fault = ""
  /\ completeAPISpecList[1] = completeAPISpecList[2]
  /\ outcomes[1] = << "nil" >>
  /\ outcomes[2] = << "DuplicateServiceError" >>
  /\ resp[1].msgs = completeAPISpecList[1]
  /\ resp[2].msgs = << >>
  /\ device.State = CONFIGSTATE_CONFIGURED

====
